---- MODULE Spec2Model ----
(***************************************************************************)
(* The analysis session of CodeOrigin: the App component whose source is   *)
(* src/src/components/CodeInputPanel.tsx, lines 191-835.  The state is the *)
(* component's useState cells; the operations are its event handlers, the  *)
(* continuations of handleAnalyze after its awaited fetch and after its    *)
(* awaited res.json(), and the callback of the setTimeout that             *)
(* handleAnalyze arms.                                                     *)
(*                                                                         *)
(* A string that the code inspects character by character (the code        *)
(* buffer, a code preview) is a sequence of characters, each written as a  *)
(* TLA+ string; a string that the code only stores and compares (a         *)
(* language, a message) is a TLA+ string.  A nullable cell is a sequence   *)
(* of length 0 or 1.                                                       *)
(*                                                                         *)
(* Not modelled: openSection, showPasteHint, lastAnalyzedAt,               *)
(* analysisDuration and the timestamp of a history item (wall-clock reads  *)
(* and display flags that no handler reads back), and handleCopyResult     *)
(* (clipboard only).                                                       *)
(***************************************************************************)
EXTENDS Integers, Sequences, FiniteSets, TLC

VARIABLES
    code,                \* useState('')            the code buffer
    language,            \* useState('auto')
    state,               \* useState<ViewState>('empty')
    result,              \* useState<ResultData | null>(null)
    errorMessage,        \* useState<string | null>(null)
    history,             \* useState<HistoryItem[]>([])
    animatedConfidence,  \* useState(0)
    inflight,            \* the handleAnalyze calls suspended at an await,
                         \* oldest first, each with the code and language its
                         \* closure captured and with the status of its
                         \* Response once fetch has resolved: a call waits
                         \* first for fetch, then for the body (res.json())
    timers,              \* the armed setTimeout callbacks, in firing order
    issued,              \* the number of fetch calls made so far
    settled              \* what the call that resumed last resumed with: the
                         \* `res` with its body, or the value fetch threw

vars == <<code, language, state, result, errorMessage, history,
          animatedConfidence, inflight, timers, issued, settled>>

-----------------------------------------------------------------------------
(* Bounds of the model.                                                    *)

MaxAttempts == 3
MaxHistoryAttempts == 12
MaxInFlight == 2

-----------------------------------------------------------------------------
(* Program constants.                                                      *)

MIN_CODE_LENGTH == 20
PreviewLength == 80
HistoryLimit == 10
DefaultConfidence == 55
ConfidenceFloor == 0
ConfidenceCeiling == 100

\* the literal of line 263 is the three characters U+00E2 U+20AC U+00A6
TruncationMark == <<"U+00E2", "U+20AC", "U+00A6">>
EmptyPreview == <<"(", "e", "m", "p", "t", "y", ")">>
NoReasonsPlaceholder == "No reasons provided by backend."
DefaultModel == "Heuristic"
UnreachableMessage == "Unable to reach the server. Please try again."

-----------------------------------------------------------------------------
(* String.prototype operations used by the code.                           *)

Min(a, b) == IF a < b THEN a ELSE b
Max(a, b) == IF a > b THEN a ELSE b

\* the characters the regular expression class \s and trim() treat as blank:
\* the white space and the line terminators of ECMAScript; a character
\* with no TLA+ escape is written as its code point
WhiteSpace ==
    {" ", "\n", "\t", "\r", "\f", "U+000B", "U+00A0", "U+1680", "U+2000",
     "U+2001", "U+2002", "U+2003", "U+2004", "U+2005", "U+2006", "U+2007",
     "U+2008", "U+2009", "U+200A", "U+2028", "U+2029", "U+202F", "U+205F",
     "U+3000", "U+FEFF"}
IsSpace(ch) == ch \in WhiteSpace

RECURSIVE TrimStart(_)
TrimStart(s) ==
    IF s # <<>> /\ IsSpace(Head(s)) THEN TrimStart(Tail(s)) ELSE s

RECURSIVE TrimEnd(_)
TrimEnd(s) ==
    IF s # <<>> /\ IsSpace(s[Len(s)])
    THEN TrimEnd(SubSeq(s, 1, Len(s) - 1))
    ELSE s

\* s.trim()
Trim(s) == TrimEnd(TrimStart(s))

\* s.replace(/\s+/g, ' '): every maximal run of blanks becomes one space.
\* A long string is computed by halves, to bound the depth of the
\* recursion: a run that spans the two halves leaves a space at the end of
\* the first and at the start of the second, of which one is kept.
RECURSIVE CollapseWhitespace(_)
CollapseWhitespace(s) ==
    IF s = <<>> THEN <<>>
    ELSE IF Len(s) > 32
    THEN LET half == Len(s) \div 2
             left == CollapseWhitespace(SubSeq(s, 1, half))
             right == CollapseWhitespace(SubSeq(s, half + 1, Len(s)))
         IN  IF left[Len(left)] = " " /\ right[1] = " "
             THEN left \o Tail(right)
             ELSE left \o right
    ELSE IF IsSpace(Head(s))
         THEN <<" ">> \o CollapseWhitespace(TrimStart(s))
         ELSE <<Head(s)>> \o CollapseWhitespace(Tail(s))

\* s.slice(0, n) for n >= 0
SliceTo(s, n) == SubSeq(s, 1, Min(n, Len(s)))

Rep(ch, n) == [i \in 1..n |-> ch]

\* the string of a sequence of characters
RECURSIVE Concat(_)
Concat(s) == IF s = <<>> THEN "" ELSE Head(s) \o Concat(Tail(s))

\* the template literals of lines 223-230 and 232-239
SAMPLE_JS_CODE ==
    <<"f", "u", "n", "c", "t", "i", "o", "n", " ", "s", "u", "m", "(", "a",
      ",", " ", "b", ")", " ", "{", "\n", " ", " ", " ", " ", " ", " ",
      " ", " ", "r", "e", "t", "u", "r", "n", " ", "a", " ", "+", " ", "b",
      ";", "\n", " ", " ", " ", " ", " ", " ", "}", "\n", "\n", " ", " ",
      " ", " ", " ", " ", "c", "o", "n", "s", "t", " ", "n", "u", "m", "b",
      "e", "r", "s", " ", "=", " ", "[", "1", ",", " ", "2", ",", " ", "3",
      ",", " ", "4", "]", ";", "\n", " ", " ", " ", " ", " ", " ", "c",
      "o", "n", "s", "t", " ", "t", "o", "t", "a", "l", " ", "=", " ", "n",
      "u", "m", "b", "e", "r", "s", ".", "r", "e", "d", "u", "c", "e", "(",
      "(", "a", "c", "c", ",", " ", "n", ")", " ", "=", ">", " ", "a", "c",
      "c", " ", "+", " ", "n", ",", " ", "0", ")", ";", "\n", "\n", " ",
      " ", " ", " ", " ", " ", "c", "o", "n", "s", "o", "l", "e", ".", "l",
      "o", "g", "(", "t", "o", "t", "a", "l", ")", ";">>
SAMPLE_PY_CODE ==
    <<"d", "e", "f", " ", "s", "u", "m", "_", "n", "u", "m", "b", "e", "r",
      "s", "(", "n", "u", "m", "b", "e", "r", "s", ")", ":", "\n", " ",
      " ", " ", " ", " ", " ", " ", " ", " ", " ", "t", "o", "t", "a", "l",
      " ", "=", " ", "0", "\n", " ", " ", " ", " ", " ", " ", " ", " ",
      " ", " ", "f", "o", "r", " ", "n", " ", "i", "n", " ", "n", "u", "m",
      "b", "e", "r", "s", ":", "\n", " ", " ", " ", " ", " ", " ", " ",
      " ", " ", " ", " ", " ", " ", " ", "t", "o", "t", "a", "l", " ", "+",
      "=", " ", "n", "\n", " ", " ", " ", " ", " ", " ", " ", " ", " ",
      " ", "r", "e", "t", "u", "r", "n", " ", "t", "o", "t", "a", "l",
      "\n", "\n", " ", " ", " ", " ", " ", " ", "n", "u", "m", "s", " ",
      "=", " ", "[", "1", ",", " ", "2", ",", " ", "3", ",", " ", "4", "]",
      "\n", " ", " ", " ", " ", " ", " ", "p", "r", "i", "n", "t", "(",
      "s", "u", "m", "_", "n", "u", "m", "b", "e", "r", "s", "(", "n", "u",
      "m", "s", ")", ")">>

-----------------------------------------------------------------------------
(* The history (addToHistory, lines 257-276).                              *)

\* the codePreview expression of lines 259-263 and the fallback of line 270
CodePreview(c) ==
    LET cut == SliceTo(Trim(CollapseWhitespace(c)), PreviewLength)
        preview == cut \o (IF Len(c) > PreviewLength THEN TruncationMark ELSE <<>>)
    IN  IF preview = <<>> THEN EmptyPreview ELSE preview

\* one HistoryItem: id from the length of the previous list, codePreview
\* from the code of the closure, the rest spread from the item
HistoryItem(prev, c, lang, status, res, msg) ==
    [id           |-> Len(prev) + 1,
     codePreview  |-> CodePreview(c),
     language     |-> lang,
     status       |-> status,
     result       |-> res,
     errorMessage |-> msg]

\* addToHistory called only where an attempt succeeds
addToHistorySuccessOnly(prev, c, lang, status, res, msg) ==
    IF status = "error" THEN prev
    ELSE SliceTo(<<HistoryItem(prev, c, lang, status, res, msg)>> \o prev, HistoryLimit)

\* addToHistory without its slice
addToHistoryUnbounded(prev, c, lang, status, res, msg) ==
    <<HistoryItem(prev, c, lang, status, res, msg)>> \o prev

\* addToHistory with the spread and the item exchanged: [...prev, item]
addToHistoryAtTail(prev, c, lang, status, res, msg) ==
    SliceTo(prev \o <<HistoryItem(prev, c, lang, status, res, msg)>>, HistoryLimit)

\* the updater handed to setHistory: [item, ...prev].slice(0, 10)
addToHistory(prev, c, lang, status, res, msg) ==
    SliceTo(<<HistoryItem(prev, c, lang, status, res, msg)>> \o prev, HistoryLimit)

-----------------------------------------------------------------------------
(* What fetch delivers.  A settled fetch either rejects with a thrown      *)
(* value or resolves with a Response: a status and a body.  A body is      *)
(* either a text that is not JSON, the JSON value null, or a JSON object   *)
(* whose fields are tagged with the JSON type they hold.                   *)

Absent == [k |-> "absent", s |-> "", n |-> 0, items |-> <<>>]
Str(s) == [k |-> "string", s |-> s, n |-> 0, items |-> <<>>]
\* a JSON number, in tenths: Num(1236) is 123.6
Num(n) == [k |-> "number", s |-> "", n |-> n, items |-> <<>>]
List(items) == [k |-> "array", s |-> "", n |-> 0, items |-> items]
Null == [k |-> "null", s |-> "", n |-> 0, items |-> <<>>]

\* a body whose text, a sequence of characters, does not parse as JSON
NotJson(text) == [json |-> "invalid", text |-> text, thrown |-> "",
                  error |-> Absent, type |-> Absent, confidence |-> Absent,
                  reasons |-> Absent, model |-> Absent]
\* a body whose stream fails before its end: res.json() rejects with a
\* TypeError of this message
BodyFailed(message) == [json |-> "failed", text |-> <<>>, thrown |-> message,
                        error |-> Absent, type |-> Absent, confidence |-> Absent,
                        reasons |-> Absent, model |-> Absent]
JsonNull == [json |-> "null", text |-> <<>>, thrown |-> "", error |-> Absent,
             type |-> Absent, confidence |-> Absent, reasons |-> Absent,
             model |-> Absent]
ErrorBody(e) == [json |-> "object", text |-> <<>>, thrown |-> "", error |-> e,
                 type |-> Absent, confidence |-> Absent, reasons |-> Absent,
                 model |-> Absent]
ResultBody(t, c, r, m) == [json |-> "object", text |-> <<>>, thrown |-> "",
                           error |-> Absent, type |-> t, confidence |-> c,
                           reasons |-> r, model |-> m]

Rejected(isError, message) ==
    [kind |-> "rejected", isError |-> isError, message |-> message,
     status |-> 0, body |-> NotJson(<<>>)]
Responded(status, body) ==
    [kind |-> "response", isError |-> FALSE, message |-> "",
     status |-> status, body |-> body]

\* Response.ok
Ok(res) == res.status \in 200..299

\* Math.floor in the place of Math.round
MathRoundDown(tenths) == tenths \div 10

\* Math.round of a number given in tenths: the nearest integer, halves up
MathRound(tenths) == (tenths + 5) \div 10

\* the object literal `normalized` of lines 309-319
Normalize(dataRaw) ==
    [type       |-> IF dataRaw.type = Str("ai") THEN "ai" ELSE "human",
     confidence |-> IF dataRaw.confidence.k = "number"
                    THEN Max(ConfidenceFloor,
                             Min(ConfidenceCeiling, MathRound(dataRaw.confidence.n)))
                    ELSE DefaultConfidence,
     reasons    |-> IF dataRaw.reasons.k = "array"
                    THEN dataRaw.reasons.items
                    ELSE <<NoReasonsPlaceholder>>,
     model      |-> IF dataRaw.model.k \in {"absent", "null"} THEN Str(DefaultModel)
                    ELSE dataRaw.model]

\* whether a JSON value is truthy: every array is, a string but the empty
\* one, a number but 0
Truthy(v) ==
    \/ v.k = "array"
    \/ v.k = "string" /\ v.s # ""
    \/ v.k = "number" /\ v.n # 0

\* Array.prototype.join for an array of strings
RECURSIVE Join(_, _)
Join(items, sep) ==
    IF items = <<>> THEN ""
    ELSE IF Len(items) = 1 THEN items[1]
    ELSE items[1] \o sep \o Join(Tail(items), sep)

\* the string of a number given in tenths
NumberToString(n) ==
    LET a == IF n < 0 THEN -n ELSE n
        digits == IF a % 10 = 0 THEN ToString(a \div 10)
                  ELSE ToString(a \div 10) \o "." \o ToString(a % 10)
    IN  IF n < 0 THEN "-" \o digits ELSE digits

\* String(v), the conversion `new Error(v)` applies to its argument
ToStr(v) ==
    IF v.k = "string" THEN v.s
    ELSE IF v.k = "number" THEN NumberToString(v.n)
    ELSE IF v.k = "array" THEN Join(v.items, ",")
    ELSE IF v.k = "null" THEN "null"
    ELSE "undefined"

\* the body of the error response never read
BackendMessageIgnored(res) == Str("")

\* errJson.error || '' inside the try of lines 297-302: '' when the body
\* does not parse, when reading .error throws, or when the field is falsy;
\* a truthy field of any type is taken as it is
BackendMessage(res) ==
    IF res.body.json = "object" /\ Truthy(res.body.error)
    THEN res.body.error
    ELSE Str("")

\* `Server error (status ${res.status})`
StatusMessage(res) == "Server error (status " \o ToString(res.status) \o ")"

\* the texts V8's JSON parser reports whole: NaN, Infinity, undefined and
\* [object Object]
SpecialStrings ==
    {<<"N", "a", "N">>,
     <<"I", "n", "f", "i", "n", "i", "t", "y">>,
     <<"u", "n", "d", "e", "f", "i", "n", "e", "d">>,
     <<"[", "o", "b", "j", "e", "c", "t", " ", "O", "b", "j", "e", "c", "t", "]">>}

\* the white space of the JSON grammar
JsonWhiteSpace == {" ", "\t", "\n", "\r"}
\* the message of the SyntaxError that res.json() rejects with (V8, as in
\* Chrome from 105 and Node from 20), for a text that is empty or blank or
\* whose first character past the blanks begins no JSON value; V8 quotes
\* MaxContextCharacters on each side of the offending character when the
\* text has MinLengthForContext characters or more; a text that is exactly
\* one of V8's special strings is quoted whole, with no token
JsonSyntaxMessage(text) ==
    LET MaxContextCharacters == 10
        MinLengthForContext == 21
        at == {p \in 1..Len(text) : text[p] \notin JsonWhiteSpace} IN
    IF at = {} THEN "Unexpected end of JSON input"
    ELSE IF text \in SpecialStrings
    THEN "\"" \o Concat(text) \o "\" is not valid JSON"
    ELSE LET p == CHOOSE q \in at : \A o \in at : q <= o
             pos == p - 1
             token == "Unexpected token '" \o text[p] \o "', "
             quoted(from, to) == "\"" \o Concat(SubSeq(text, from + 1, to)) \o "\""
         IN  IF Len(text) < MinLengthForContext
             THEN token \o quoted(0, Len(text)) \o " is not valid JSON"
             ELSE IF pos < MaxContextCharacters
             THEN token \o quoted(0, pos + MaxContextCharacters)
                        \o "... is not valid JSON"
             ELSE IF pos < Len(text) - MaxContextCharacters
             THEN token \o "..." \o quoted(pos - MaxContextCharacters,
                                           pos + MaxContextCharacters)
                        \o "... is not valid JSON"
             ELSE token \o "..." \o quoted(pos - MaxContextCharacters, Len(text))
                        \o " is not valid JSON"

\* the message of the TypeError of reading a field of null (V8)
NullReadMessage == "Cannot read properties of null (reading 'type')"

\* Whether the try block of lines 288-332 throws on this settlement
Throws(r) ==
    \/ r.kind = "rejected"
    \/ ~Ok(r)
    \/ r.body.json # "object"

\* the value the catch of line 333 receives
Thrown(r) ==
    IF r.kind = "rejected" THEN [isError |-> r.isError, message |-> r.message]
    ELSE IF ~Ok(r)
         THEN [isError |-> TRUE,
               message |-> IF Truthy(BackendMessage(r))
                           THEN ToStr(BackendMessage(r))
                           ELSE StatusMessage(r)]
    ELSE IF r.body.json = "failed"
         THEN [isError |-> TRUE, message |-> r.body.thrown]
    ELSE IF r.body.json = "invalid"
         THEN [isError |-> TRUE, message |-> JsonSyntaxMessage(r.body.text)]
    ELSE [isError |-> TRUE, message |-> NullReadMessage]

\* the `message` of lines 335-338
FailureMessage(err) ==
    IF err.isError THEN err.message ELSE UnreachableMessage

-----------------------------------------------------------------------------
(* The component.                                                          *)

Init ==
    /\ code = <<>>
    /\ language = "auto"
    /\ state = "empty"
    /\ result = <<>>
    /\ errorMessage = <<>>
    /\ history = <<>>
    /\ animatedConfidence = 0
    /\ inflight = <<>>
    /\ timers = <<>>
    /\ issued = 0
    /\ settled = <<>>

isLoading == state = "loading"

isCodeValid == Len(Trim(code)) >= MIN_CODE_LENGTH

\* the textarea's onChange: setCode(e.target.value)
onCodeChange(c) ==
    /\ code' = c
    /\ UNCHANGED <<language, state, result, errorMessage, history,
                   animatedConfidence, inflight, timers, issued, settled>>

\* insertSampleCode(lang), lines 372-380: the buttons "Sample JS" and
\* "Sample Python"
insertSampleCode(lang) ==
    /\ IF lang = "javascript"
       THEN code' = SAMPLE_JS_CODE /\ language' = "javascript"
       ELSE code' = SAMPLE_PY_CODE /\ language' = "python"
    /\ UNCHANGED <<state, result, errorMessage, history, animatedConfidence,
                   inflight, timers, issued, settled>>

\* the select's onChange: setLanguage(e.target.value)
onLanguageChange(l) ==
    /\ language' = l
    /\ UNCHANGED <<code, state, result, errorMessage, history,
                   animatedConfidence, inflight, timers, issued, settled>>

handleClearText ==
    /\ code' = <<>>
    /\ UNCHANGED <<language, state, result, errorMessage, history,
                   animatedConfidence, inflight, timers, issued, settled>>

\* handleReset with a setHistory([]) added
handleResetClearingHistory ==
    /\ code' = <<>>
    /\ result' = <<>>
    /\ errorMessage' = <<>>
    /\ state' = "empty"
    /\ history' = <<>>
    /\ UNCHANGED <<language, animatedConfidence, inflight, timers, issued, settled>>

handleReset ==
    /\ code' = <<>>
    /\ result' = <<>>
    /\ errorMessage' = <<>>
    /\ state' = "empty"
    /\ UNCHANGED <<language, history, animatedConfidence, inflight, timers, issued,
                   settled>>

\* handleAnalyze up to its await: the early return of line 281, the two
\* state updates and the fetch call, whose closure keeps this render's
\* code and language; the attempt number names the call
handleAnalyze ==
    IF Trim(code) = <<>>
    THEN UNCHANGED vars
    ELSE /\ state' = "loading"
         /\ errorMessage' = <<>>
         /\ inflight' = Append(inflight, [attempt |-> issued + 1, code |-> code,
                                         language |-> language, response |-> <<>>])
         /\ issued' = issued + 1
         /\ UNCHANGED <<code, language, result, history, animatedConfidence, timers,
                        settled>>

\* a click on "Analyze Origin": the button is disabled while isLoading or
\* while the code is not valid
AnalyzeClick ==
    /\ ~(isLoading \/ ~isCodeValid)
    /\ handleAnalyze

\* a "Retry" button rendered in every state
RetryClickInAnyState ==
    /\ ~(isLoading \/ Trim(code) = <<>>)
    /\ handleAnalyze

\* a click on "Retry": the button is rendered in the error state and is
\* disabled while isLoading or while the trimmed code is empty
RetryClick ==
    /\ state = "error"
    /\ ~(isLoading \/ Trim(code) = <<>>)
    /\ handleAnalyze

RemoveAt(s, i) == SubSeq(s, 1, i - 1) \o SubSeq(s, i + 1, Len(s))

\* handleAnalyze from `await fetch` (line 289) to `await res.json()` (line
\* 307, or 298 when the status is not 2xx), for the i-th call: fetch has
\* resolved with a Response of this status, whose body is still to come
handleAnalyzeResponded(i, status) ==
    /\ i \in 1..Len(inflight)
    /\ inflight[i].response = <<>>
    /\ inflight' = [inflight EXCEPT ![i].response = <<status>>]
    /\ UNCHANGED <<code, language, state, result, errorMessage, history,
                   animatedConfidence, timers, issued, settled>>

\* whether r is an outcome this suspended call can resume with: a rejection
\* of fetch while it waits for fetch, or the body (or the failure of the
\* body's stream) of the Response it has got
Delivers(call, r) ==
    IF r.kind = "rejected" THEN call.response = <<>>
    ELSE call.response = <<r.status>>

\* a continuation recording the code and the language of the settlement's
\* moment, not those of the request
handleAnalyzeSettledLive(i, r) ==
    /\ i \in 1..Len(inflight)
    /\ Delivers(inflight[i], r)
    /\ inflight' = RemoveAt(inflight, i)
    /\ settled' = <<r>>
    /\ IF Throws(r)
       THEN LET message == FailureMessage(Thrown(r)) IN
            /\ errorMessage' = <<message>>
            /\ result' = <<>>
            /\ state' = "error"
            /\ history' = addToHistory(history, code, language, "error", <<>>, <<message>>)
            /\ UNCHANGED <<animatedConfidence, timers>>
       ELSE LET normalized == Normalize(r.body) IN
            /\ result' = <<normalized>>
            /\ state' = "result"
            /\ animatedConfidence' = 0
            /\ timers' = Append(timers, normalized.confidence)
            /\ history' = addToHistory(history, code, language, "success",
                                       <<normalized>>, <<>>)
            /\ UNCHANGED errorMessage
    /\ UNCHANGED <<code, language, issued>>

\* a continuation without the catch block: a throw ends the handler
handleAnalyzeSettledUncaught(i, r) ==
    /\ i \in 1..Len(inflight)
    /\ Delivers(inflight[i], r)
    /\ inflight' = RemoveAt(inflight, i)
    /\ settled' = <<r>>
    /\ IF Throws(r)
       THEN UNCHANGED <<errorMessage, result, state, history, animatedConfidence, timers>>
       ELSE LET normalized == Normalize(r.body) IN
            /\ result' = <<normalized>>
            /\ state' = "result"
            /\ animatedConfidence' = 0
            /\ timers' = Append(timers, normalized.confidence)
            /\ history' = addToHistory(history, inflight[i].code, inflight[i].language,
                                       "success", <<normalized>>, <<>>)
            /\ UNCHANGED errorMessage
    /\ UNCHANGED <<code, language, issued>>

\* handleAnalyze from its last await on, for the i-th suspended call: fetch
\* has rejected as r, or the body of the Response r has arrived (or its
\* stream has failed): the rest of the try block, or the catch block
handleAnalyzeSettled(i, r) ==
    /\ i \in 1..Len(inflight)
    /\ Delivers(inflight[i], r)
    /\ inflight' = RemoveAt(inflight, i)
    /\ settled' = <<r>>
    /\ IF Throws(r)
       THEN LET message == FailureMessage(Thrown(r)) IN
            /\ errorMessage' = <<message>>
            /\ result' = <<>>
            /\ state' = "error"
            /\ history' = addToHistory(history, inflight[i].code, inflight[i].language,
                                       "error", <<>>, <<message>>)
            /\ UNCHANGED <<animatedConfidence, timers>>
       ELSE LET normalized == Normalize(r.body) IN
            /\ result' = <<normalized>>
            /\ state' = "result"
            /\ animatedConfidence' = 0
            /\ timers' = Append(timers, normalized.confidence)
            /\ history' = addToHistory(history, inflight[i].code, inflight[i].language,
                                       "success", <<normalized>>, <<>>)
            /\ UNCHANGED errorMessage
    /\ UNCHANGED <<code, language, issued>>

\* the callback of the setTimeout of lines 327-329; the callbacks all have
\* the same delay, so they run in the order they were armed
confidenceTimeout ==
    /\ timers # <<>>
    /\ animatedConfidence' = Head(timers)
    /\ timers' = Tail(timers)
    /\ UNCHANGED <<code, language, state, result, errorMessage, history,
                   inflight, issued, settled>>

-----------------------------------------------------------------------------
(* Inputs.                                                                 *)

\* MIN_CODE_LENGTH characters of which one less remains after trim()
PaddedCode == <<" ">> \o Rep("x", MIN_CODE_LENGTH - 1)
ValidCode == Rep("x", MIN_CODE_LENGTH)

Codes == {PaddedCode, ValidCode}
Languages == {"auto", "python"}

AiResult == ResultBody(Str("ai"), Num(820),
                       List(<<"Few comments", "Highly regular formatting">>),
                       Str("Heuristic + OpenAI"))
FailedToFetch == Rejected(TRUE, "Failed to fetch")
\* a body cut off by the loss of the connection
Terminated == BodyFailed("terminated")
\* an error page of a gateway in the place of the JSON body
HtmlPage ==
    NotJson(<<"<", "h", "t", "m", "l", ">", "<", "b", "o", "d", "y", ">", "5", "0",
              "2", " ", "B", "a", "d", " ", "G", "a", "t", "e", "w", "a", "y", "<",
              "/", "b", "o", "d", "y", ">", "<", "/", "h", "t", "m", "l", ">">>)
ModelUnavailable == Responded(500, ErrorBody(Str("model unavailable")))

Settlements == {Responded(200, AiResult), FailedToFetch, ModelUnavailable}

\* the statuses of the Responses among these outcomes
StatusesOf(outcomes) == {r.status : r \in {q \in outcomes : q.kind = "response"}}

\* the model's bound on the fetch calls made and on those in flight
MayIssue(max) == issued < max /\ Len(inflight) < MaxInFlight

Next ==
    \/ \E c \in Codes : onCodeChange(c)
    \/ \E l \in Languages : onLanguageChange(l)
    \/ handleClearText
    \/ handleReset
    \/ MayIssue(MaxAttempts) /\ AnalyzeClick
    \/ MayIssue(MaxAttempts) /\ RetryClick
    \/ \E i \in 1..Len(inflight), st \in StatusesOf(Settlements) :
          handleAnalyzeResponded(i, st)
    \/ \E i \in 1..Len(inflight), r \in Settlements : handleAnalyzeSettled(i, r)
    \/ confidenceTimeout

Spec == Init /\ [][Next]_vars

-----------------------------------------------------------------------------
(* The same component driven through more attempts than the history        *)
(* holds.  SpecHistory runs the attempts one after the other, each settled *)
(* as a result or as a failure, and lets the armed timer run before the    *)
(* next settlement; SpecHistoryOverlap lets handleReset abandon a fetch in *)
(* flight, so that fetches overlap and settle in any order, all of them as *)
(* the same failure.                                                       *)

HistorySettlements == {Responded(200, AiResult), FailedToFetch}

NextHistory ==
    \/ onCodeChange(ValidCode)
    \/ MayIssue(MaxHistoryAttempts) /\ AnalyzeClick
    \/ MayIssue(MaxHistoryAttempts) /\ RetryClick
    \/ \E i \in 1..Len(inflight), st \in StatusesOf(HistorySettlements) :
          handleAnalyzeResponded(i, st)
    \/ \E i \in 1..Len(inflight), r \in HistorySettlements :
          /\ timers = <<>>
          /\ handleAnalyzeSettled(i, r)
    \/ confidenceTimeout

SpecHistory == Init /\ [][NextHistory]_vars

NextHistoryOverlap ==
    \/ onCodeChange(ValidCode)
    \/ handleReset
    \/ MayIssue(MaxHistoryAttempts) /\ AnalyzeClick
    \/ MayIssue(MaxHistoryAttempts) /\ RetryClick
    \/ \E i \in 1..Len(inflight) : handleAnalyzeSettled(i, FailedToFetch)

SpecHistoryOverlap == Init /\ [][NextHistoryOverlap]_vars

(* Results of different confidences, each arming its own timer: attempts   *)
(* that all succeed, the timers firing in the order they were set.         *)
HumanResult == ResultBody(Str("human"), Num(300), List(<<"Inconsistent naming">>),
                          Absent)
AnimationSettlements == {Responded(200, AiResult), Responded(200, HumanResult)}

NextAnimation ==
    \/ onCodeChange(ValidCode)
    \/ \E lang \in {"javascript", "python"} : insertSampleCode(lang)
    \/ handleReset
    \/ MayIssue(MaxAttempts) /\ AnalyzeClick
    \/ \E i \in 1..Len(inflight), st \in StatusesOf(AnimationSettlements) :
          handleAnalyzeResponded(i, st)
    \/ \E i \in 1..Len(inflight), r \in AnimationSettlements : handleAnalyzeSettled(i, r)
    \/ confidenceTimeout

SpecAnimation == Init /\ [][NextAnimation]_vars

(* Attempts made one after the other, never reset, each fetch settling in  *)
(* the end: with a result, with a 2xx body that does not parse, with a     *)
(* non-2xx status with or without a parseable body, or rejected.           *)
LiveSettlements == {Responded(200, AiResult), Responded(200, HtmlPage),
                    Responded(200, Terminated), ModelUnavailable,
                    Responded(500, HtmlPage), Responded(500, Terminated),
                    FailedToFetch}

Settle ==
    \E i \in 1..Len(inflight), r \in LiveSettlements : handleAnalyzeSettled(i, r)

NextLive ==
    \/ onCodeChange(ValidCode)
    \/ \E i \in 1..Len(inflight), st \in StatusesOf(LiveSettlements) :
          handleAnalyzeResponded(i, st)
    \/ MayIssue(MaxAttempts) /\ AnalyzeClick
    \/ MayIssue(MaxAttempts) /\ RetryClick
    \/ Settle
    \/ confidenceTimeout

SpecLive == Init /\ [][NextLive]_vars /\ WF_vars(Settle)

-----------------------------------------------------------------------------
(* One attempt, from every code and language of AllCodes and AllLanguages, *)
(* settled by every settlement of AllSettlements.                          *)

BlankCode == <<" ", "\n", "\t">>
ShortCode == <<"a", " ", "b">>
\* exactly PreviewLength characters, none of them blank
FullCode == Rep("x", PreviewLength)
\* one character more
LongCode == Rep("x", PreviewLength + 1)
\* longer than PreviewLength as typed, shorter once blanks are collapsed
SparseCode == Rep("x", MIN_CODE_LENGTH) \o Rep(" ", PreviewLength) \o <<"\n", "y">>
\* PreviewLength characters between a leading and a trailing blank
FramedCode == <<"\t">> \o Rep("x", PreviewLength) \o <<"\n">>

\* MIN_CODE_LENGTH characters, the last one a no-break space
NbspCode == Rep("x", MIN_CODE_LENGTH - 1) \o <<"U+00A0">>

AllCodes == {BlankCode, ShortCode, PaddedCode, ValidCode, FullCode, LongCode,
             SparseCode, FramedCode, NbspCode}
AllLanguages == {"auto", "javascript", "python", "java", "cpp"}

RawTypes == {Absent, Null, Str("ai"), Str("human"), Str("AI")}
RawConfidences == {Absent, Null, Str("82"), Num(820), Num(824), Num(825), Num(827),
                   Num(1236), Num(1000), Num(0), Num(-4), Num(-5), Num(-100)}
RawReasons == {Absent, Null, Str("none"), List(<<>>),
               List(<<"Few comments", "Highly regular formatting">>)}
RawModels == {Absent, Null, Str("Heuristic"), Str("OpenAI"),
              Str("Heuristic + OpenAI"), Str("GPT"), Num(70), List(<<"OpenAI">>)}
RawErrors == {Absent, Null, Str(""), Str("model unavailable"), Num(50), Num(55),
              Num(0), List(<<"a", "b">>), List(<<>>)}

\* bodies that are not JSON: no content, one character, a page, a special
\* string, a line
UnparseableBodies ==
    {NotJson(<<>>), NotJson(<<"<">>), HtmlPage, NotJson(<<"N", "a", "N">>),
     NotJson(<<"\n", "I", "n", "t", "e", "r", "n", "a", "l", " ", "S", "e", "r",
               "v", "e", "r", " ", "E", "r", "r", "o", "r", "\n">>)}

Bodies ==
    UnparseableBodies \cup {JsonNull, Terminated}
    \cup {ErrorBody(e) : e \in RawErrors}
    \cup {ResultBody(t, c, r, m) :
             t \in RawTypes, c \in RawConfidences, r \in RawReasons, m \in RawModels}

Statuses == {200, 204, 400, 404, 500}

Rejections == {FailedToFetch, Rejected(TRUE, "Load failed"),
               Rejected(TRUE, "The user aborted a request."), Rejected(FALSE, "")}

AllSettlements == Rejections \cup {Responded(st, b) : st \in Statuses, b \in Bodies}

InitResponses ==
    /\ code \in AllCodes
    /\ language \in AllLanguages
    /\ state = "empty"
    /\ result = <<>>
    /\ errorMessage = <<>>
    /\ history = <<>>
    /\ animatedConfidence = 0
    /\ inflight = <<>>
    /\ timers = <<>>
    /\ issued = 0
    /\ settled = <<>>

NextResponses ==
    \/ \E lang \in {"javascript", "python"} : issued = 0 /\ insertSampleCode(lang)
    \/ issued = 0 /\ AnalyzeClick
    \/ \E i \in 1..Len(inflight), st \in Statuses : handleAnalyzeResponded(i, st)
    \/ \E i \in 1..Len(inflight), r \in AllSettlements : handleAnalyzeSettled(i, r)
    \/ confidenceTimeout

SpecResponses == InitResponses /\ [][NextResponses]_vars

-----------------------------------------------------------------------------
(* Vocabulary of the properties.                                           *)

Range(s) == {s[k] : k \in 1..Len(s)}

\* the number of fetch calls that have settled
Completed == issued - Len(inflight)

\* a step in which a fetch settles: no other step takes a fetch out of flight
SettleStep == Len(inflight') < Len(inflight)

\* in a SettleStep, the request of the fetch that settles
SettledRequest == CHOOSE q \in Range(inflight) : q \notin Range(inflight')

\* in a SettleStep, whether the settling fetch is not the active attempt: a
\* later fetch was issued, or the session left Loading (by handleReset)
SettledIsStale == state # "loading" \/ SettledRequest.attempt # issued

-----------------------------------------------------------------------------
(* C1: when the fetch that settles belongs to an attempt that is no longer *)
(* the active one, the step changes neither the session state, nor the     *)
(* stored result, nor the stored failure message.                          *)
StaleSettlementIsDropped ==
    [][(SettleStep /\ SettledIsStale) => UNCHANGED <<state, result, errorMessage>>]_vars

(* C2: in every reachable state at most one fetch is in flight.            *)
AtMostOneOutstanding == Len(inflight) <= 1

(* C3: while the trimmed code is shorter than MIN_CODE_LENGTH no step      *)
(* issues a request or enters Loading.                                     *)
ShortCodeIssuesNoRequest ==
    [][Len(Trim(code)) < MIN_CODE_LENGTH =>
          /\ issued' = issued
          /\ state' = "loading" => state = "loading"]_vars

(* C4: a step appends to the history exactly when a fetch settles; the     *)
(* step then ends in Result or Failed and puts one entry, a success entry  *)
(* holding the stored result or an error entry holding the stored message, *)
(* in front of the entries already there; so the history holds as many     *)
(* entries as fetches have settled, up to its limit.                       *)
EveryOutcomeAppendsOnce ==
    /\ [](Len(history) = Min(HistoryLimit, Completed))
    /\ [][IF SettleStep
          THEN /\ state' \in {"result", "error"}
               /\ Len(history') = Min(HistoryLimit, Len(history) + 1)
               /\ Tail(history') = SliceTo(history, HistoryLimit - 1)
               /\ state' = "result" =>
                     /\ history'[1].status = "success"
                     /\ history'[1].result = result'
               /\ state' = "error" =>
                     /\ history'[1].status = "error"
                     /\ history'[1].errorMessage = errorMessage'
          ELSE history' = history]_vars

\* C4's case: three fetches settled, as results and as failures
BothOutcomesRecorded ==
    /\ Completed = 3
    /\ Len(history) = 3
    /\ \E j, k \in 1..3 : history[j].status = "success" /\ history[k].status = "error"

(* C5: the history never holds more than HistoryLimit entries.             *)
HistoryNeverExceedsLimit == Len(history) <= HistoryLimit

\* C5's case: more fetches have settled than the history holds, while a
\* fetch that was abandoned or overtaken is still in flight
HistoryFullAfterOverlap ==
    /\ Len(history) = HistoryLimit
    /\ Completed > HistoryLimit
    /\ inflight # <<>>
    /\ state # "loading"

(* C6: a settling fetch puts its entry at the head of the history and      *)
(* keeps the entries before it in their order, dropping only the last one  *)
(* when the history is full; once HistoryLimit + 1 fetches have settled    *)
(* the entries are those of the last HistoryLimit fetches, newest first,   *)
(* and the entry of the first fetch is gone.                               *)
HistoryNewestFirst ==
    /\ [][SettleStep =>
             /\ history'[1].status = (IF state' = "result" THEN "success" ELSE "error")
             /\ history'[1].result = (IF state' = "result" THEN result' ELSE <<>>)
             /\ \A k \in 2..Len(history') : history'[k] = history[k - 1]
             /\ Len(history') = Min(HistoryLimit, Len(history) + 1)]_vars
    /\ [](Completed = HistoryLimit + 1 =>
             /\ Len(history) = HistoryLimit
             /\ \A k \in 1..HistoryLimit : history[k].id = HistoryLimit + 2 - k)

\* C6's case: the eleventh fetch has settled, as a failure, after a result
EleventhEntryAtHead ==
    /\ Completed = HistoryLimit + 1
    /\ history[1].status = "error"
    /\ history[2].status = "success"
    /\ history[HistoryLimit].status = "error"

(* C7: handleReset, and every step that brings the session to Empty, ends  *)
(* with the state Empty, the code buffer empty, no stored result and no    *)
(* stored failure message, and leaves the history as it was.               *)
ResetClearsSessionOnly ==
    [][(handleReset \/ (state # "empty" /\ state' = "empty")) =>
          /\ state' = "empty"
          /\ code' = <<>>
          /\ result' = <<>>
          /\ errorMessage' = <<>>
          /\ history' = history]_vars

\* C7's case: a reset during Loading, with entries in the history
ResetDuringLoading ==
    /\ state = "empty"
    /\ code = <<>>
    /\ inflight # <<>>
    /\ Len(history) = 2

-----------------------------------------------------------------------------
(* In a SettleStep, the settlement just delivered.                         *)

Delivered == settled'[1]

\* the failure is on the screen and at the head of the history
FailedWith(msg) ==
    /\ state' = "error"
    /\ errorMessage' = <<msg>>
    /\ history'[1].status = "error"
    /\ history'[1].errorMessage = <<msg>>

(* C8, as claimed: a response that is not 2xx ends in Failed; the message, *)
(* also in the history entry, is the body's error field (as a string) when *)
(* the body carries one and the status message otherwise.                  *)
ServerErrorFieldIsMessage ==
    [][(SettleStep /\ Delivered.kind = "response" /\ ~Ok(Delivered)) =>
          FailedWith(IF Delivered.body.json = "object"
                        /\ Delivered.body.error.k \notin {"absent", "null"}
                     THEN ToStr(Delivered.body.error)
                     ELSE StatusMessage(Delivered))]_vars

(* C8, amended: a response that is not 2xx ends in Failed; the message,    *)
(* also in the history entry, is the body's error field when that is a     *)
(* string and not empty, the digits of the field when it is a number other *)
(* than 0, its items joined by commas when it is an array (the empty       *)
(* message for the empty array), and the status message when the body is   *)
(* not JSON, is null, or carries no error field, a null one, the empty     *)
(* string or 0.                                                            *)
ServerErrorMessageShown ==
    [][(SettleStep /\ Delivered.kind = "response" /\ ~Ok(Delivered)) =>
          LET field == Delivered.body.error IN
          FailedWith(IF Delivered.body.json # "object" THEN StatusMessage(Delivered)
                     ELSE IF field.k = "string" /\ field.s # "" THEN field.s
                     ELSE IF field.k = "number" /\ field.n # 0
                          THEN NumberToString(field.n)
                     ELSE IF field.k = "array" THEN Join(field.items, ",")
                     ELSE StatusMessage(Delivered))]_vars

\* C8's case: a 500 whose body carries an error field has settled
ServerErrorSettled ==
    /\ settled = <<Responded(500, ErrorBody(Str("model unavailable")))>>
    /\ state = "error"
    /\ errorMessage = <<"model unavailable">>
    /\ Len(history) = 1

(* C9: a 2xx response whose body has arrived never ends in Failed,         *)
(* whatever the body: the attempt ends in Result.                          *)
SuccessStatusNeverFails ==
    [][(SettleStep /\ Delivered.kind = "response" /\ Ok(Delivered)
          /\ Delivered.body.json # "failed") =>
          state' = "result"]_vars

(* C10: a fetch that rejects ends in Failed with the one generic           *)
(* connectivity message, whatever was thrown.                              *)
TransportFailureMessageIsGeneric ==
    [][(SettleStep /\ Delivered.kind = "rejected") =>
          FailedWith(UnreachableMessage)]_vars

-----------------------------------------------------------------------------
(* In a SettleStep, whether the fetch resolved with a 2xx response whose   *)
(* body parsed to an object: a successful response.                        *)
Succeeded ==
    /\ SettleStep
    /\ Delivered.kind = "response"
    /\ Ok(Delivered)
    /\ Delivered.body.json = "object"

\* the results stored in the session and in the history
StoredResults ==
    Range(result) \cup UNION {Range(history[k].result) : k \in 1..Len(history)}

(* C11: every stored result has an integer confidence from 0 to 100; a     *)
(* successful response stores, in the session and in its history entry,    *)
(* the raw confidence rounded to a nearest integer and then brought into   *)
(* 0..100 when the raw value is a number, and 55 when it is not a number   *)
(* or is missing.                                                          *)
ConfidenceRoundedAndClamped ==
    /\ [](\A res \in StoredResults :
             res.confidence \in ConfidenceFloor..ConfidenceCeiling)
    /\ [][Succeeded =>
             LET raw == Delivered.body.confidence
                 c == result'[1].confidence
             IN  /\ history'[1].result = result'
                 /\ IF raw.k = "number"
                    THEN \E q \in (raw.n \div 10 - 1)..(raw.n \div 10 + 1) :
                            /\ 10 * q - raw.n \in -5..5
                            /\ c = (IF q > ConfidenceCeiling THEN ConfidenceCeiling
                                    ELSE IF q < ConfidenceFloor THEN ConfidenceFloor
                                    ELSE q)
                    ELSE c = DefaultConfidence]_vars

\* C11's case: a raw confidence of 123.6 was stored as 100
ConfidenceClampedFromAbove ==
    /\ settled # <<>>
    /\ settled[1].body.confidence = Num(1236)
    /\ state = "result"
    /\ result[1].confidence = ConfidenceCeiling
    /\ history[1].result = result

(* C12: a successful response whose raw reasons are absent, not a list or  *)
(* the empty list stores the one-element placeholder; any other stores the *)
(* raw reasons in their order.                                             *)
ReasonsDefaultWhenEmpty ==
    [][Succeeded =>
          LET raw == Delivered.body.reasons
          IN  result'[1].reasons =
                 (IF raw.k = "array" /\ raw.items # <<>>
                  THEN raw.items
                  ELSE <<NoReasonsPlaceholder>>)]_vars

(* C13: a successful response stores the verdict ai exactly when the raw   *)
(* type is the string "ai" and human otherwise, stores the model Heuristic *)
(* when the raw model is absent, and always stores one of the models       *)
(* Heuristic, OpenAI, Heuristic + OpenAI.                                  *)
VerdictAndModelNormalized ==
    [][Succeeded =>
          /\ result'[1].type = (IF Delivered.body.type = Str("ai") THEN "ai" ELSE "human")
          /\ Delivered.body.model = Absent => result'[1].model = Str(DefaultModel)
          /\ result'[1].model \in {Str("Heuristic"), Str("OpenAI"),
                                    Str("Heuristic + OpenAI")}]_vars

(* C14: the ids of the history are pairwise distinct and strictly          *)
(* decreasing from head to tail (every entry got an id greater than the    *)
(* ids of the entries appended before it), also after more than 10         *)
(* attempts.                                                               *)
HistoryIdsStrictlyDecreasing ==
    \A j, k \in 1..Len(history) : j < k => history[j].id > history[k].id

(* C15: a result and a failure message are never both stored; state       *)
(* result has a result and no message, state error has a message and no    *)
(* result, state empty has neither.                                        *)
ExactlyOneVariant ==
    /\ ~(result # <<>> /\ errorMessage # <<>>)
    /\ state = "result" => result # <<>> /\ errorMessage = <<>>
    /\ state = "error" => errorMessage # <<>> /\ result = <<>>
    /\ state = "empty" => result = <<>> /\ errorMessage = <<>>

(* C16: the state changes only from empty to loading, from loading to      *)
(* result or error, from result or error to loading, and from any state to *)
(* empty.                                                                  *)
OnlyDeclaredTransitions ==
    [][state' # state =>
          \/ state' = "empty"
          \/ <<state, state'>> \in {<<"empty", "loading">>,
                                    <<"loading", "result">>,
                                    <<"loading", "error">>,
                                    <<"result", "loading">>,
                                    <<"error", "loading">>}]_vars

\* in a step that issues a request, the request issued
IssueStep == issued' = issued + 1
IssuedRequest == inflight'[Len(inflight')]

(* C17 as stated: Retry can be clicked only in state error, and the        *)
(* request it issues carries the code and the language of the attempt that *)
(* failed (the attempt of the newest history entry), whatever the code     *)
(* buffer and the language selection are now.                              *)
RetryResendsFailedAttempt ==
    /\ [](ENABLED RetryClick => state = "error")
    /\ [][RetryClick /\ IssueStep =>
             /\ IssuedRequest.language = history[1].language
             /\ CodePreview(IssuedRequest.code) = history[1].codePreview]_vars

(* C17: Retry can be clicked only in state error, and the request it       *)
(* issues carries the code buffer and the language selection as they are   *)
(* at the click.                                                           *)
RetrySendsCurrentBuffer ==
    /\ [](ENABLED RetryClick => state = "error")
    /\ [][RetryClick /\ IssueStep =>
             IssuedRequest = [attempt |-> issued + 1, code |-> code,
                              language |-> language, response |-> <<>>]]_vars

\* C17's case: after a failed attempt the code and the language were
\* changed and Retry was clicked (only Retry submits a code of fewer than
\* MIN_CODE_LENGTH characters)
RetriedAfterEdit ==
    /\ state = "loading"
    /\ Len(inflight) = 1
    /\ history # <<>>
    /\ history[1].status = "error"
    /\ inflight[1].code = PaddedCode
    /\ CodePreview(inflight[1].code) # history[1].codePreview
    /\ inflight[1].language # history[1].language

(* C18: the arrival of a result resets the displayed confidence to 0, and  *)
(* while a result is stored the displayed confidence is only ever 0 or the *)
(* confidence of that newest result: a timer set by an earlier result      *)
(* never shows the earlier target.                                         *)
LatestTargetWins ==
    /\ [](result # <<>> => animatedConfidence \in {0, result[1].confidence})
    /\ [][Succeeded => animatedConfidence' = 0]_vars

(* C19: the history entry created by a settlement records the language of  *)
(* the request and the preview of the request's code, whatever the code    *)
(* buffer and the language selection are at the settlement; an entry never *)
(* changes after it was created (it only moves towards the tail), and a    *)
(* request in flight never changes.                                        *)
HistoryEntryRecordsSubmission ==
    /\ [][SettleStep =>
             /\ history'[1].language = SettledRequest.language
             /\ history'[1].codePreview = CodePreview(SettledRequest.code)
             /\ \A k \in 2..Len(history') : history'[k] = history[k - 1]]_vars
    /\ [][~SettleStep => history' = history]_vars
    /\ [][\A q \in Range(inflight') :
             \/ \E o \in Range(inflight) :
                   /\ q.attempt = o.attempt
                   /\ q.code = o.code
                   /\ q.language = o.language
             \/ IssueStep /\ q = IssuedRequest]_vars

\* C19's case: an entry whose language and preview are not those of the
\* present selection and buffer, the buffer having been emptied
EntryDiffersFromBuffer ==
    /\ Completed = 1
    /\ inflight = <<>>
    /\ code = <<>>
    /\ history[1].codePreview = CodePreview(ValidCode)
    /\ history[1].language # language

(* C20: with every fetch settling in the end and no reset, a session in    *)
(* state loading reaches state result or state error, however the fetch    *)
(* settles.                                                                *)
LoadingEnds == (state = "loading") ~> (state \in {"result", "error"})

\* C20's case: a 2xx response whose body does not parse ended the loading
LoadingEndedByUnparseableBody ==
    /\ settled = <<Responded(200, HtmlPage)>>
    /\ state = "error"
    /\ inflight = <<>>

(* C21: the code preview of the history entry created by a settlement is   *)
(* the request's code with its blanks collapsed and trimmed, cut to        *)
(* PreviewLength characters, followed by the truncation mark exactly when  *)
(* that collapsed text is longer than PreviewLength characters.            *)
PreviewMarkedWhenCut ==
    [][SettleStep =>
          LET collapsed == Trim(CollapseWhitespace(SettledRequest.code))
          IN  history'[1].codePreview =
                 SliceTo(collapsed, PreviewLength)
                    \o (IF Len(collapsed) > PreviewLength THEN TruncationMark
                        ELSE <<>>)]_vars

====
